---- MODULE Spec2Model ----
(***************************************************************************)
(* Model of TwitchRecorder (src/twitch_recorder.py): the control loop      *)
(* record_stream, the capture process manager (start_recording,            *)
(* stop_recording), the live-status oracle (is_stream_live) and the        *)
(* connectivity prober (is_internet_available).                            *)
(*                                                                         *)
(* Every source statement of record_stream and stop_recording is one step; *)
(* pc is the statement about to run.  The environment chooses the outcome  *)
(* of each external call (HTTP probe, Twitch handshake and query, Popen,   *)
(* Popen.wait), lets a running capture process exit at any time, and may   *)
(* deliver KeyboardInterrupt before any statement.  External calls raise   *)
(* what their libraries document: requests.get a RequestException, the     *)
(* Twitch client any Exception, Popen an OSError, Popen.wait(timeout) a    *)
(* TimeoutExpired; terminate, kill, poll and time.sleep raise nothing.     *)
(***************************************************************************)
EXTENDS Integers, Sequences, FiniteSets, TLC

\* Bounds of the model.
MaxStarts == 2          \* capture processes that may be spawned
MaxInterrupts == 2      \* KeyboardInterrupts that may be delivered

MaxChanLen == 2         \* longest channel name given to get_output_filename

\* Program constant: the length of the endpoints list.
NumEndpoints == 3

None == 0
Procs == 1..MaxStarts
EndpointOutcomes == {"ok", "neterr"}
QueryOutcomes == {"live", "offline", "neterr", "autherr", "malformed"}
HandshakeOutcomes == {"ok", "fail"}

VARIABLES
    pc,            \* statement of record_stream / stop_recording about to run
    stopRet,       \* caller of the stop_recording in progress: none, loop, kbd, exc
    process,       \* self.process: None or the handle of a spawned process
    twitch,        \* self.twitch: "None" or "Session"
    status,        \* per spawned process: unborn, running, exited
    termSent,      \* per process: terminate() was called on its handle
    killSent,      \* per process: kill() was called on its handle
    timedOut,      \* per process: a wait(timeout=10) on it raised TimeoutExpired
    waitOk,        \* per process: a wait(timeout=10) on it returned in time
    stopped,       \* processes on whose handle a stop_recording ran to the end
    nstarts,       \* processes spawned so far
    interrupts,    \* KeyboardInterrupts delivered so far
    intIn,         \* where the first KeyboardInterrupt was delivered
    state,         \* supervisor state implied by the control position
    tick,          \* what the current iteration of the outer loop has done
    lastProbe,     \* outcomes and result of the latest is_internet_available
    endCause,      \* why the latest recording loop was left
    stopCalls,     \* stop_recording calls since the latest start_recording call
    errSite,       \* statement that last raised an Exception into record_stream
    sessionFailed, \* a query on the current Session failed for authentication
    dirExists,     \* the output directory recordings/ exists
    gaps,          \* sleeps between consecutive oracle queries and launches
    allocs         \* filenames allocated by get_output_filename (SpecAlloc)

vars == <<pc, stopRet, process, twitch, status, termSent, killSent, timedOut,
          waitOk, stopped, nstarts, interrupts, intIn, state, tick, lastProbe,
          endCause, stopCalls, errSite, sessionFailed, dirExists, gaps,
          allocs>>

procVars == <<status, termSent, killSent, timedOut, waitOk, stopped, nstarts>>
oracleVars == <<twitch, sessionFailed>>
intVars == <<interrupts, intIn>>

FreshTick == [probe |-> "none", oracle |-> FALSE, hs |-> "none",
              query |-> "none", live |-> "none", started |-> FALSE,
              alloc |-> "none"]

NoGaps == [oGap |-> "none", oSlept |-> FALSE, sGap |-> "none",
           sSlept |-> FALSE]

NoProbe == [outcomes |-> <<>>, contacted |-> 0, result |-> FALSE]
NoInt == [state |-> "none", proc |-> None, live |-> FALSE]

Live == {p \in Procs : status[p] = "running"}

\* pc values inside the bodies of the two except clauses of record_stream.
InHandler == stopRet \in {"kbd", "exc"} \/ pc = "sleep_err"
Terminated == {"done", "escaped", "crashed"}

----------------------------------------------------------------------------
\* is_internet_available: try the endpoints in order, True at the first that
\* answers, False when every one raised RequestException.
RECURSIVE ProbeFrom(_, _)
ProbeFrom(outcomes, i) ==
    IF i > NumEndpoints
    THEN [result |-> FALSE, contacted |-> i - 1]
    ELSE IF outcomes[i] = "ok"
         THEN [result |-> TRUE, contacted |-> i]
         ELSE ProbeFrom(outcomes, i + 1)

\* Defective variant: gives up after the first endpoint instead of trying the
\* next one.
is_internet_available_first_only(outcomes) ==
    [result |-> (outcomes[1] = "ok"), contacted |-> 1]

is_internet_available(outcomes) == ProbeFrom(outcomes, 1)

\* Defective variant: self.twitch is assigned before the handshake is known to
\* have succeeded.
initialize_twitch_keeps_failed(hs) ==
    [raised |-> (hs # "ok"), twitch |-> "Session"]

\* initialize_twitch: the handshake; it raises when the handshake fails and
\* assigns self.twitch only when it succeeds.
initialize_twitch(hs) ==
    IF hs = "ok" THEN [raised |-> FALSE, twitch |-> "Session"]
                 ELSE [raised |-> TRUE, twitch |-> "None"]

\* Defective variant: a failed query is taken for "still live".
is_stream_live_fail_open(tw, hs, q) ==
    LET init == IF tw = "None" THEN initialize_twitch(hs)
                               ELSE [raised |-> FALSE, twitch |-> tw]
    IN  IF init.raised
        THEN [result |-> FALSE, twitch |-> init.twitch, hs |-> "fail",
              query |-> "none"]
        ELSE [result |-> (q # "offline"), twitch |-> init.twitch,
              hs |-> IF tw = "None" THEN "ok" ELSE "none", query |-> q]

\* is_stream_live: lazy handshake, then the query; every Exception is caught
\* and mapped to False.  self.twitch is assigned nowhere else.
is_stream_live(tw, hs, q) ==
    LET init == IF tw = "None" THEN initialize_twitch(hs)
                               ELSE [raised |-> FALSE, twitch |-> tw]
    IN  IF init.raised
        THEN [result |-> FALSE, twitch |-> init.twitch, hs |-> "fail",
              query |-> "none"]
        ELSE [result |-> (q = "live"), twitch |-> init.twitch,
              hs |-> IF tw = "None" THEN "ok" ELSE "none", query |-> q]

\* Channel names (Twitch logins: letters, digits, underscore) as sequences
\* of characters, and wall-clock readings at second resolution.
ChanChars == {"a", "1", "_"}
Channels == UNION {[1..n -> ChanChars] : n \in 1..MaxChanLen}
Clock == [day : {1, 11}, sec : {0, 1, 10}]
OutputDir == <<"recordings">>

Digits == <<"0", "1", "2", "3", "4", "5", "6", "7", "8", "9">>
Pad2(n) == <<Digits[(n \div 10) + 1], Digits[(n % 10) + 1]>>

\* Defective variant: the timestamp stops at the minute.
strftime_without_seconds(t) == Pad2(t.day) \o <<"_">>

\* strftime("%Y%m%d_%H%M%S"): zero-padded fixed-width fields, date and time
\* joined by an underscore.
strftime(t) == Pad2(t.day) \o <<"_">> \o Pad2(t.sec)

\* get_output_filename: output_dir / f"{channel}_{timestamp}.mp4".
get_output_filename(dir, channel, t) ==
    dir \o <<"/">> \o channel \o <<"_">> \o strftime(t) \o <<".mp4">>

----------------------------------------------------------------------------
Init ==
    /\ pc = "probe"
    /\ stopRet = "none"
    /\ process = None
    /\ twitch = "None"
    /\ status = [p \in Procs |-> "unborn"]
    /\ termSent = [p \in Procs |-> FALSE]
    /\ killSent = [p \in Procs |-> FALSE]
    /\ timedOut = [p \in Procs |-> FALSE]
    /\ waitOk = [p \in Procs |-> FALSE]
    /\ stopped = {}
    /\ nstarts = 0
    /\ interrupts = 0
    /\ intIn = NoInt
    /\ state = "IDLE"
    /\ tick = FreshTick
    /\ lastProbe = NoProbe
    /\ endCause = "none"
    /\ stopCalls = 0
    /\ errSite = "none"
    /\ sessionFailed = FALSE
    /\ dirExists = TRUE
    /\ gaps = NoGaps
    /\ allocs = <<>>

\* time.sleep(30): a backoff sleep has passed since the latest oracle query
\* and since the latest launch.
Slept == gaps' = [gaps EXCEPT !.oSlept = TRUE, !.sSlept = TRUE]

\* An oracle query: whether a sleep separates it from the query before it.
OracleGap ==
    gaps' = [gaps EXCEPT !.oSlept = FALSE,
                         !.oGap = IF gaps.oGap = "none" THEN "first"
                                  ELSE IF gaps.oSlept THEN "slept"
                                  ELSE "unslept"]

\* A launch: whether a sleep separates it from the launch before it.
LaunchGap ==
    gaps' = [gaps EXCEPT !.sSlept = FALSE,
                         !.sGap = IF gaps.sGap = "none" THEN "first"
                                  ELSE IF gaps.sSlept THEN "slept"
                                  ELSE "unslept"]

\* Line 114-117: probe; no internet -> warning, sleep.
Probe ==
    /\ pc = "probe"
    /\ \E o \in [1..NumEndpoints -> EndpointOutcomes] :
         LET r == is_internet_available(o)
         IN  /\ lastProbe' = [outcomes |-> o, contacted |-> r.contacted,
                              result |-> r.result]
             /\ IF r.result
                THEN /\ pc' = "live"
                     /\ tick' = [tick EXCEPT !.probe = "up"]
                     /\ state' = state
                ELSE /\ pc' = "sleep_net"
                     /\ tick' = [tick EXCEPT !.probe = "down"]
                     /\ state' = "WAITING_FOR_NETWORK"
    /\ UNCHANGED <<stopRet, process, procVars, oracleVars, intVars, endCause,
                   stopCalls, errSite>>
    /\ UNCHANGED <<dirExists, gaps, allocs>>

\* Defective variant: the continue of line 117 is missing, so control falls
\* through to the live-status check.
SleepNet_no_continue ==
    /\ pc = "sleep_net"
    /\ pc' = "live"
    /\ UNCHANGED <<stopRet, process, procVars, oracleVars, intVars, state,
                   tick, lastProbe, endCause, stopCalls, errSite>>
    /\ Slept
    /\ UNCHANGED <<dirExists, allocs>>

\* Line 116-117: time.sleep(30); continue.
SleepNet ==
    /\ pc = "sleep_net"
    /\ pc' = "probe"
    /\ tick' = FreshTick
    /\ UNCHANGED <<stopRet, process, procVars, oracleVars, intVars, state,
                   lastProbe, endCause, stopCalls, errSite>>
    /\ Slept
    /\ UNCHANGED <<dirExists, allocs>>

\* The effect of one is_stream_live call on the oracle's state and the log.
OracleCall(r) ==
    /\ twitch' = r.twitch
    /\ sessionFailed' = IF r.hs = "ok" THEN r.query = "autherr"
                        ELSE sessionFailed \/ r.query = "autherr"
    /\ tick' = [tick EXCEPT !.oracle = TRUE, !.hs = r.hs, !.query = r.query,
                            !.live = IF r.result THEN "yes" ELSE "no"]
    /\ OracleGap

\* Defective variant: the sleep and continue of line 121-122 are outside
\* the if, so the tick waits whatever the live check returned.
CheckLive_always_waits ==
    /\ pc = "live"
    /\ \E hs \in HandshakeOutcomes, q \in QueryOutcomes :
         LET r == is_stream_live(twitch, hs, q)
         IN  /\ OracleCall(r)
             /\ pc' = "sleep_live"
             /\ state' = "WAITING_FOR_LIVE"
    /\ UNCHANGED <<stopRet, process, procVars, intVars, lastProbe, endCause,
                   stopCalls, errSite>>
    /\ UNCHANGED <<dirExists, allocs>>

\* Line 119-122: live-status check before a start.
CheckLive ==
    /\ pc = "live"
    /\ \E hs \in HandshakeOutcomes, q \in QueryOutcomes :
         LET r == is_stream_live(twitch, hs, q)
         IN  /\ OracleCall(r)
             /\ IF r.result
                THEN pc' = "start" /\ state' = state
                ELSE pc' = "sleep_live" /\ state' = "WAITING_FOR_LIVE"
    /\ UNCHANGED <<stopRet, process, procVars, intVars, lastProbe, endCause,
                   stopCalls, errSite>>
    /\ UNCHANGED <<dirExists, allocs>>

\* Line 121-122: time.sleep(30); continue.
SleepLive ==
    /\ pc = "sleep_live"
    /\ pc' = "probe"
    /\ tick' = FreshTick
    /\ UNCHANGED <<stopRet, process, procVars, oracleVars, intVars, state,
                   lastProbe, endCause, stopCalls, errSite>>
    /\ Slept
    /\ UNCHANGED <<dirExists, allocs>>

\* Line 72-75: get_output_filename only builds the path; it creates no
\* directory (the one mkdir is in __init__, line 27).  DirAtReturn is the
\* state of the output directory when it returns.
DirAtReturn == IF dirExists THEN "present" ELSE "absent"

\* Defective variant: the OSError of Popen is not caught and ends
\* record_stream.
start_recording_uncaught ==
    /\ pc = "start"
    /\ \/ /\ nstarts < MaxStarts
          /\ nstarts' = nstarts + 1
          /\ status' = [status EXCEPT ![nstarts + 1] = "running"]
          /\ process' = nstarts + 1
          /\ pc' = "poll"
          /\ state' = "RECORDING"
          /\ tick' = [tick EXCEPT !.started = TRUE, !.alloc = DirAtReturn]
          /\ stopCalls' = 0
          /\ LaunchGap
          /\ UNCHANGED <<stopRet, errSite>>
       \/ /\ errSite' = "start"
          /\ pc' = "crashed"
          /\ tick' = [tick EXCEPT !.alloc = DirAtReturn]
          /\ UNCHANGED <<nstarts, status, process, gaps, stopRet, state,
                         stopCalls>>
    /\ endCause' = "none"
    /\ UNCHANGED <<termSent, killSent, timedOut, waitOk, stopped, oracleVars,
                   intVars, lastProbe>>
    /\ UNCHANGED <<dirExists, allocs>>

\* Line 124-125, 72-75, 92-97: get_output_filename and start_recording.  Popen
\* either spawns the process and its handle replaces self.process, or raises
\* OSError, which the except Exception clause (line 138-140) catches and
\* which leaves self.process as it was.
start_recording ==
    /\ pc = "start"
    /\ \/ /\ nstarts < MaxStarts
          /\ nstarts' = nstarts + 1
          /\ status' = [status EXCEPT ![nstarts + 1] = "running"]
          /\ process' = nstarts + 1
          /\ pc' = "poll"
          /\ state' = "RECORDING"
          /\ tick' = [tick EXCEPT !.started = TRUE, !.alloc = DirAtReturn]
          /\ stopCalls' = 0
          /\ LaunchGap
          /\ UNCHANGED <<stopRet, errSite>>
       \/ /\ errSite' = "start"
          /\ pc' = "term"
          /\ stopRet' = "exc"
          /\ state' = "IDLE"
          /\ stopCalls' = 1
          /\ tick' = [tick EXCEPT !.alloc = DirAtReturn]
          /\ UNCHANGED <<nstarts, status, process, gaps>>
    /\ endCause' = "none"
    /\ UNCHANGED <<termSent, killSent, timedOut, waitOk, stopped, oracleVars,
                   intVars, lastProbe>>
    /\ UNCHANGED <<dirExists, allocs>>

\* Defective variant: the loop condition does not poll the process, so the
\* loop may be left while the process is running.
Poll_without_poll ==
    /\ pc = "poll"
    /\ \/ /\ process # None /\ status[process] = "running"
          /\ pc' = "live_rec"
          /\ UNCHANGED <<tick, state, endCause>>
       \/ /\ pc' = "probe"
          /\ tick' = FreshTick
          /\ state' = "IDLE"
          /\ endCause' = "exited"
    /\ UNCHANGED <<stopRet, process, procVars, oracleVars, intVars, lastProbe,
                   stopCalls, errSite>>
    /\ UNCHANGED <<dirExists, gaps, allocs>>

\* Line 127: while self.process and self.process.poll() is None.
Poll ==
    /\ pc = "poll"
    /\ IF process # None /\ status[process] = "running"
       THEN /\ pc' = "live_rec"
            /\ UNCHANGED <<tick, state, endCause>>
       ELSE /\ pc' = "probe"
            /\ tick' = FreshTick
            /\ state' = "IDLE"
            /\ endCause' = "exited"
    /\ UNCHANGED <<stopRet, process, procVars, oracleVars, intVars, lastProbe,
                   stopCalls, errSite>>
    /\ UNCHANGED <<dirExists, gaps, allocs>>

\* Defective variant: on not-live the loop breaks without stop_recording.
CheckLiveRec_no_stop ==
    /\ pc = "live_rec"
    /\ \E hs \in HandshakeOutcomes, q \in QueryOutcomes :
         LET r == is_stream_live(twitch, hs, q)
         IN  /\ twitch' = r.twitch
             /\ sessionFailed' = (sessionFailed \/ r.query = "autherr")
             /\ IF r.result
                THEN /\ pc' = "sleep_rec"
                     /\ tick' = [tick EXCEPT !.oracle = TRUE, !.hs = r.hs,
                                             !.query = r.query, !.live = "yes"]
                     /\ UNCHANGED <<state, endCause>>
                ELSE /\ pc' = "probe"
                     /\ tick' = FreshTick
                     /\ state' = "IDLE"
                     /\ endCause' = "notlive"
    /\ UNCHANGED <<stopRet, stopCalls, process, procVars, intVars, lastProbe,
                   errSite>>
    /\ OracleGap
    /\ UNCHANGED <<dirExists, allocs>>

\* Line 128-131: live-status check while recording; not live -> stop, break.
CheckLiveRec ==
    /\ pc = "live_rec"
    /\ \E hs \in HandshakeOutcomes, q \in QueryOutcomes :
         LET r == is_stream_live(twitch, hs, q)
         IN  /\ OracleCall(r)
             /\ IF r.result
                THEN pc' = "sleep_rec" /\ UNCHANGED <<stopRet, stopCalls>>
                ELSE pc' = "term" /\ stopRet' = "loop"
                     /\ stopCalls' = stopCalls + 1
    /\ UNCHANGED <<process, procVars, intVars, state, lastProbe, endCause,
                   errSite>>
    /\ UNCHANGED <<dirExists, allocs>>

\* Line 132: time.sleep(30) inside the recording loop.
SleepRec ==
    /\ pc = "sleep_rec"
    /\ pc' = "poll"
    /\ UNCHANGED <<stopRet, process, procVars, oracleVars, intVars, state,
                   tick, lastProbe, endCause, stopCalls, errSite>>
    /\ Slept
    /\ UNCHANGED <<dirExists, allocs>>

\* Defective variant: after the stop of the except Exception clause the loop
\* re-ticks without the sleep of line 141.
Return_without_backoff(r) ==
    /\ stopRet' = "none"
    /\ CASE r = "loop" -> /\ pc' = "probe"
                          /\ tick' = FreshTick
                          /\ state' = "IDLE"
                          /\ endCause' = "notlive"
         [] r = "kbd" -> /\ pc' = "done"
                         /\ UNCHANGED <<tick, state, endCause>>
         [] OTHER -> /\ pc' = "probe"
                     /\ tick' = FreshTick
                     /\ UNCHANGED <<state, endCause>>

\* Where control goes when stop_recording returns to its caller r: the break
\* of line 131 (next outer iteration), the break of line 137 (record_stream
\* returns) or the sleep of line 141.
Return(r) ==
    /\ stopRet' = "none"
    /\ CASE r = "loop" -> /\ pc' = "probe"
                          /\ tick' = FreshTick
                          /\ state' = "IDLE"
                          /\ endCause' = "notlive"
         [] r = "kbd" -> /\ pc' = "done"
                         /\ UNCHANGED <<tick, state, endCause>>
         [] OTHER -> /\ pc' = "sleep_err"
                     /\ UNCHANGED <<tick, state, endCause>>

\* Line 101-102: if self.process: self.process.terminate().
stop_terminate ==
    /\ pc = "term"
    /\ IF process = None
       THEN /\ Return(stopRet)
            /\ UNCHANGED termSent
       ELSE /\ termSent' = [termSent EXCEPT ![process] = TRUE]
            /\ pc' = "wait"
            /\ UNCHANGED <<stopRet, tick, state, endCause>>
    /\ UNCHANGED <<process, status, killSent, timedOut, waitOk, stopped,
                   nstarts, oracleVars, intVars, lastProbe, stopCalls, errSite>>
    /\ UNCHANGED <<dirExists, gaps, allocs>>

\* Defective variant: the kill is issued whether or not the wait timed out.
stop_wait_always_kill ==
    /\ pc = "wait"
    /\ \/ /\ status[process] = "exited"
          /\ waitOk' = [waitOk EXCEPT ![process] = TRUE]
          /\ UNCHANGED <<status, timedOut>>
       \/ /\ status[process] = "running"
          /\ status' = [status EXCEPT ![process] = "exited"]
          /\ waitOk' = [waitOk EXCEPT ![process] = TRUE]
          /\ UNCHANGED timedOut
       \/ /\ status[process] = "running"
          /\ timedOut' = [timedOut EXCEPT ![process] = TRUE]
          /\ UNCHANGED <<status, waitOk>>
    /\ pc' = "kill"
    /\ UNCHANGED <<stopRet, process, termSent, killSent, stopped, nstarts,
                   oracleVars, intVars, state, tick, lastProbe, endCause,
                   stopCalls, errSite>>
    /\ UNCHANGED <<dirExists, gaps, allocs>>

\* Line 103-105: self.process.wait(timeout=10): returns at once for an exited
\* process; for a running one the process exits within the 10 seconds or
\* TimeoutExpired is raised and caught.
stop_wait ==
    /\ pc = "wait"
    /\ \/ /\ status[process] = "exited"
          /\ waitOk' = [waitOk EXCEPT ![process] = TRUE]
          /\ pc' = "clear"
          /\ UNCHANGED <<status, timedOut>>
       \/ /\ status[process] = "running"
          /\ status' = [status EXCEPT ![process] = "exited"]
          /\ waitOk' = [waitOk EXCEPT ![process] = TRUE]
          /\ pc' = "clear"
          /\ UNCHANGED timedOut
       \/ /\ status[process] = "running"
          /\ timedOut' = [timedOut EXCEPT ![process] = TRUE]
          /\ pc' = "kill"
          /\ UNCHANGED <<status, waitOk>>
    /\ UNCHANGED <<stopRet, process, termSent, killSent, stopped, nstarts,
                   oracleVars, intVars, state, tick, lastProbe, endCause,
                   stopCalls, errSite>>
    /\ UNCHANGED <<dirExists, gaps, allocs>>

\* Defective variant: TimeoutExpired is swallowed without the kill.
stop_kill_omitted ==
    /\ pc = "kill"
    /\ pc' = "clear"
    /\ UNCHANGED <<stopRet, process, procVars, oracleVars, intVars, state,
                   tick, lastProbe, endCause, stopCalls, errSite>>
    /\ UNCHANGED <<dirExists, gaps, allocs>>

\* Line 106: self.process.kill().
stop_kill ==
    /\ pc = "kill"
    /\ killSent' = [killSent EXCEPT ![process] = TRUE]
    /\ status' = [status EXCEPT ![process] = "exited"]
    /\ pc' = "clear"
    /\ UNCHANGED <<stopRet, process, termSent, timedOut, waitOk, stopped,
                   nstarts, oracleVars, intVars, state, tick, lastProbe,
                   endCause, stopCalls, errSite>>
    /\ UNCHANGED <<dirExists, gaps, allocs>>

\* Defective variant: the handle is not cleared.
stop_clear_keeps_handle ==
    /\ pc = "clear"
    /\ stopped' = stopped \cup {process}
    /\ Return(stopRet)
    /\ UNCHANGED <<process, status, termSent, killSent, timedOut, waitOk,
                   nstarts, oracleVars, intVars, lastProbe, stopCalls, errSite>>
    /\ UNCHANGED <<dirExists, gaps, allocs>>

\* Line 107-108: self.process = None; stop_recording returns.
stop_clear ==
    /\ pc = "clear"
    /\ stopped' = stopped \cup {process}
    /\ process' = None
    /\ Return(stopRet)
    /\ UNCHANGED <<status, termSent, killSent, timedOut, waitOk, nstarts,
                   oracleVars, intVars, lastProbe, stopCalls, errSite>>
    /\ UNCHANGED <<dirExists, gaps, allocs>>

\* Line 141: time.sleep(30) of the except Exception clause.
SleepErr ==
    /\ pc = "sleep_err"
    /\ pc' = "probe"
    /\ tick' = FreshTick
    /\ UNCHANGED <<stopRet, process, procVars, oracleVars, intVars, state,
                   lastProbe, endCause, stopCalls, errSite>>
    /\ Slept
    /\ UNCHANGED <<dirExists, allocs>>

\* A running capture process exits on its own.
ProcExit ==
    /\ \E p \in Procs :
         /\ status[p] = "running"
         /\ status' = [status EXCEPT ![p] = "exited"]
    /\ UNCHANGED <<pc, stopRet, process, termSent, killSent, timedOut, waitOk,
                   stopped, nstarts, oracleVars, intVars, state, tick,
                   lastProbe, endCause, stopCalls, errSite>>
    /\ UNCHANGED <<dirExists, gaps, allocs>>

\* The output directory is removed from outside the program.
RemoveDir ==
    /\ dirExists
    /\ dirExists' = FALSE
    /\ UNCHANGED <<pc, stopRet, process, procVars, oracleVars, intVars, state,
                   tick, lastProbe, endCause, stopCalls, errSite, gaps, allocs>>

\* Line 134-137: KeyboardInterrupt raised before the statement at pc.  In the
\* try body it is caught: stop_recording, break.  In the body of an except
\* clause nothing catches it and it leaves record_stream.
KeyboardInterrupt ==
    /\ pc \notin Terminated
    /\ interrupts < MaxInterrupts
    /\ interrupts' = interrupts + 1
    /\ intIn' = IF interrupts = 0
                THEN [state |-> state, proc |-> process,
                      live |-> process # None /\ status[process] = "running"]
                ELSE intIn
    /\ IF InHandler
       THEN pc' = "escaped" /\ UNCHANGED <<stopRet, stopCalls>>
       ELSE pc' = "term" /\ stopRet' = "kbd" /\ stopCalls' = stopCalls + 1
    /\ UNCHANGED <<process, procVars, oracleVars, state, tick, lastProbe,
                   endCause, errSite>>
    /\ UNCHANGED <<dirExists, gaps, allocs>>

stop_recording == stop_terminate \/ stop_wait \/ stop_kill \/ stop_clear

record_stream ==
    \/ Probe \/ SleepNet \/ CheckLive \/ SleepLive \/ start_recording
    \/ Poll \/ CheckLiveRec \/ SleepRec \/ stop_recording \/ SleepErr

Next == record_stream \/ ProcExit \/ RemoveDir \/ KeyboardInterrupt

Spec == Init /\ [][Next]_vars

\* The control loop is the one thread of the program: it always takes its
\* next step.
SpecFair == Spec /\ WF_vars(record_stream)

mainVars == <<pc, stopRet, process, twitch, status, termSent, killSent,
              timedOut, waitOk, stopped, nstarts, interrupts, intIn, state,
              tick, lastProbe, endCause, stopCalls, errSite, sessionFailed,
              dirExists, gaps>>

\* Line 72-75 on its own: get_output_filename applied to a channel and a
\* clock reading, twice.
Allocate ==
    /\ Len(allocs) < 2
    /\ \E c \in Channels, t \in Clock :
         allocs' = Append(allocs, [channel |-> c, t |-> t,
                                   path |-> get_output_filename(OutputDir, c, t)])
    /\ UNCHANGED mainVars

NextAlloc == Allocate

SpecAlloc == Init /\ [][NextAlloc]_vars

----------------------------------------------------------------------------
TypeOK ==
    /\ pc \in {"probe", "sleep_net", "live", "sleep_live", "start", "poll",
               "live_rec", "sleep_rec", "term", "wait", "kill", "clear",
               "sleep_err", "done", "escaped"}
    /\ stopRet \in {"none", "loop", "kbd", "exc"}
    /\ process \in Procs \cup {None}
    /\ twitch \in {"None", "Session"}
    /\ status \in [Procs -> {"unborn", "running", "exited"}]
    /\ nstarts \in 0..MaxStarts
    /\ interrupts \in 0..MaxInterrupts
    /\ state \in {"IDLE", "WAITING_FOR_NETWORK", "WAITING_FOR_LIVE", "RECORDING"}
    /\ stopCalls \in 0..3

----------------------------------------------------------------------------
StopPcs == {"term", "wait", "kill", "clear"}

\* C1: at most one capture process is live in every reachable state, and
\* start_recording is never reached while the process of the previous handle
\* is still running.
C1_AtMostOneActive ==
    /\ Cardinality(Live) <= 1
    /\ pc = "start" => (process = None \/ status[process] # "running")

\* A second process runs and the first handle was replaced without a stop,
\* after its process had been seen to have exited.
C1_Witness ==
    /\ nstarts >= 2
    /\ status[2] = "running"
    /\ status[1] = "exited"
    /\ 1 \notin stopped

C3_NoErrorEscapes ==
    pc \in Terminated => (interrupts >= 1 /\ pc # "crashed")

\* A spawn failure went through the except Exception clause and the loop is
\* at the prober again, with no interrupt delivered.
C3_Witness ==
    /\ errSite = "start"
    /\ pc = "probe"
    /\ interrupts = 0
    /\ lastProbe.contacted = NumEndpoints

\* C4: in a tick whose handshake failed, is_stream_live returned False
\* without raising, no Session is retained, nothing was started, and the
\* supervisor is in the not-live sleep, which leads back to the prober.
C4_InTick ==
    tick.hs = "fail"
    => /\ tick.live = "no"
       /\ twitch = "None"
       /\ ~tick.started
       /\ errSite \notin {"live", "live_rec"}
       /\ Live = {}
       /\ interrupts = 0 => (pc = "sleep_live" /\ state = "WAITING_FOR_LIVE")

C4_SleepThenRetick ==
    (pc = "sleep_live" /\ pc' # pc)
    => (pc' = "probe" /\ tick' = FreshTick) \/ interrupts' > interrupts

C4_LiveStatusFailSafe == []C4_InTick /\ [][C4_SleepThenRetick]_vars

\* The handshake failed in this tick and the supervisor sleeps.
C4_Witness == tick.hs = "fail" /\ pc = "sleep_live"

\* C5: stop_recording never raises; once it has returned the handle is None
\* and no capture process is live, whatever the handle was at the call (None,
\* a running process, an exited process); a stop_recording called with no
\* handle changes nothing of the manager.
C5_AfterReturn ==
    /\ errSite \notin StopPcs
    /\ \A p \in stopped : status[p] = "exited"
    /\ (pc \in {"sleep_err", "done"} \/ (pc = "probe" /\ endCause = "notlive"))
       => (process = None /\ Live = {})

C5_SecondStopNoChange ==
    (pc = "term" /\ process = None /\ pc' # pc)
    => /\ UNCHANGED <<process, procVars>>
       /\ pc' \in {"probe", "sleep_err", "done", "escaped"}

C5_IdempotentStop == []C5_AfterReturn /\ [][C5_SecondStopNoChange]_vars

\* stop_recording has run to the end on the stale handle of a process that
\* had exited on its own.
C5_Witness ==
    /\ pc = "done"
    /\ endCause = "exited"
    /\ 1 \in stopped
    /\ ~killSent[1]
    /\ process = None

\* C6: stop_recording calls terminate() first and waits; kill() is called
\* only from a wait that timed out on a process then running, never after a
\* wait that returned in time; the process is not running once stop_recording
\* has run to the end.
C6_Order ==
    /\ \A p \in Procs : killSent[p] => (termSent[p] /\ timedOut[p])
    /\ pc \in {"wait", "kill"} => (process # None /\ termSent[process])
    /\ pc = "kill" => timedOut[process]
    /\ \A p \in stopped : status[p] = "exited"

C6_KillOnlyAfterTimeout ==
    /\ (pc' = "kill" /\ pc # "kill")
       => (pc = "wait" /\ status[process] = "running" /\ ~waitOk'[process]
           /\ timedOut'[process])
    /\ \A p \in Procs :
         (killSent'[p] /\ ~killSent[p]) => (pc = "kill" /\ process = p)

C6_StopEscalation == []C6_Order /\ [][C6_KillOnlyAfterTimeout]_vars

\* Both paths were taken to the end: one process was killed after a timeout,
\* another exited within the wait and was not killed.
C6_Witness ==
    \E p, q \in stopped :
        /\ killSent[p]
        /\ termSent[q] /\ waitOk[q] /\ ~timedOut[q] /\ ~killSent[q]

\* C7: in a tick in which the prober reported unreachable the oracle is not
\* called and nothing is started; the supervisor is in WAITING_FOR_NETWORK in
\* the sleep, which leads back to the prober with the state unchanged.
C7_InTick ==
    tick.probe = "down"
    => /\ ~lastProbe.result
       /\ ~tick.oracle
       /\ ~tick.started
       /\ state = "WAITING_FOR_NETWORK"
       /\ interrupts = 0 => pc = "sleep_net"

C7_SleepThenProbe ==
    (pc = "sleep_net" /\ pc' # pc)
    => \/ pc' = "probe" /\ tick' = FreshTick /\ state' = state
       \/ interrupts' > interrupts

C7_UnreachableNoOracle == []C7_InTick /\ [][C7_SleepThenProbe]_vars

\* The prober failed on every endpoint and the supervisor sleeps.
C7_Witness ==
    /\ tick.probe = "down"
    /\ pc = "sleep_net"
    /\ lastProbe.contacted = NumEndpoints

\* C8: when is_stream_live returns False during RECORDING, stop_recording is
\* called once; when it returns the supervisor is IDLE with no handle and no
\* live process, and until the next start_recording call no further
\* stop_recording is called (no KeyboardInterrupt being delivered).
C8_Once ==
    /\ (state = "RECORDING" /\ tick.live = "no" /\ interrupts = 0)
       => (pc \in StopPcs /\ stopRet = "loop" /\ stopCalls = 1)
    /\ (endCause = "notlive" /\ interrupts = 0)
       => /\ stopCalls = 1
          /\ process = None
          /\ Live = {}
          /\ state # "RECORDING"
          /\ stopRet = "none"

C8_BackToIdle ==
    (stopRet = "loop" /\ stopRet' = "none")
    => (state' = "IDLE" /\ endCause' = "notlive" /\ pc' = "probe")

C8_StopExactlyOnce == []C8_Once /\ [][C8_BackToIdle]_vars

\* A following tick after a not-live stop: the oracle is about to be asked
\* again and the one stop is still the only one.
C8_Witness ==
    /\ endCause = "notlive"
    /\ interrupts = 0
    /\ pc = "sleep_live"
    /\ stopCalls = 1
    /\ 1 \in stopped

\* C9: after a query failed for authentication on an existing Session, the
\* Session is invalidated (self.twitch is None), so that the next
\* is_stream_live call performs a new handshake.
C9_SessionInvalidated == sessionFailed => twitch = "None"

\* C10: is_internet_available returns True iff some endpoint succeeds, has
\* then contacted the endpoints up to the first success and no later one,
\* returns False only after contacting every endpoint, and raises nothing.
C10_ProberResult ==
    lastProbe.outcomes # <<>>
    => LET o == lastProbe.outcomes
           ok == {i \in 1..NumEndpoints : o[i] = "ok"}
       IN  /\ lastProbe.result <=> ok # {}
           /\ lastProbe.result
              => /\ lastProbe.contacted \in ok
                 /\ \A i \in ok : lastProbe.contacted <= i
           /\ ~lastProbe.result => lastProbe.contacted = NumEndpoints
           /\ errSite # "probe"
           /\ tick.probe # "none"
              => (tick.probe = "up" <=> lastProbe.result)

\* The first endpoint failed, the second answered, the third (which would
\* have answered too) was not contacted.
C10_Witness ==
    /\ lastProbe.outcomes = <<"neterr", "ok", "ok">>
    /\ lastProbe.result
    /\ lastProbe.contacted = 2
    /\ pc = "live"

\* C11: whenever get_output_filename has returned in a tick, the output
\* directory existed at that moment.
C11_DirExistsAtReturn == tick.alloc # "absent"

C13_NoHandleOutsideRecording == state # "RECORDING" => process = None

\* C14: after an Exception in a tick (the OSError of a failed spawn) the
\* handler calls stop_recording once, after it no process is live and the
\* handle is None, then the one sleep of line 141 runs and leads to the
\* prober; the failed spawn leaves the handle and the processes as they were.
C14_Handler ==
    /\ stopRet = "exc" => (errSite = "start" /\ stopCalls = 1 /\ Live = {})
    /\ pc = "sleep_err"
       => (errSite = "start" /\ process = None /\ Live = {} /\ stopCalls = 1
           /\ state = "IDLE")

C14_StopSleepRetick ==
    /\ (pc = "start" /\ pc' # "start" /\ pc' # "poll" /\ interrupts' = interrupts)
       => (pc' = "term" /\ stopRet' = "exc" /\ UNCHANGED <<process, status>>)
    /\ (stopRet = "exc" /\ stopRet' # "exc") => pc' = "sleep_err"
    /\ (pc = "sleep_err" /\ pc' # pc)
       => \/ pc' = "probe" /\ tick' = FreshTick /\ gaps'.sSlept
          \/ interrupts' > interrupts

C14_ErrorRecovery == []C14_Handler /\ [][C14_StopSleepRetick]_vars

\* The first spawn failed and a later start_recording has spawned the
\* first process.
C14_Witness ==
    /\ errSite = "start"
    /\ nstarts = 1
    /\ pc = "poll"
    /\ status[1] = "running"
    /\ process = 1
    /\ gaps.sGap = "first"

\* C15: between two consecutive is_stream_live calls of record_stream there
\* is a backoff sleep.
C15_SleepBetweenQueries == gaps.oGap # "unslept"

\* C16: a process is started only in a tick whose probe was reachable and
\* whose live check, made after it, was live; and if from some point on no
\* probe is unreachable, no live check is negative, no spawn fails and no
\* interrupt arrives, the supervisor is again and again RECORDING with a
\* live capture process.
C16_StartOnlyWhenUpAndLive ==
    /\ pc = "start" => (tick.probe = "up" /\ tick.live = "yes")
    /\ tick.oracle => (tick.probe = "up" /\ lastProbe.result)
    /\ tick.started => tick.probe = "up"

Favourable ==
    /\ tick.probe # "down"
    /\ tick.live # "no"
    /\ stopRet # "exc" /\ pc # "sleep_err"
    /\ interrupts = 0

C16_ProgressToRecording ==
    /\ []C16_StartOnlyWhenUpAndLive
    /\ (<>[]Favourable) => ([]<>(state = "RECORDING" /\ Live # {}))

\* Recording with a live process in a tick whose probe answered on the last
\* endpoint only.
C16_Witness ==
    /\ state = "RECORDING"
    /\ Live # {}
    /\ tick.started
    /\ lastProbe.contacted = NumEndpoints
    /\ lastProbe.result

\* C17: while RECORDING the prober is not run, and a live-status query that
\* fails (network, authentication, malformed answer) while RECORDING is
\* treated as not-live: stop_recording is called from the recording loop.
QueryErrors == {"neterr", "autherr", "malformed"}

C17_FailedQueryStops ==
    /\ state = "RECORDING" => pc \notin {"probe", "sleep_net", "live", "sleep_live"}
    /\ (state = "RECORDING" /\ tick.query \in QueryErrors /\ interrupts = 0)
       => (tick.live = "no" /\ pc \in StopPcs /\ stopRet = "loop"
           /\ stopCalls = 1)

C17_NoProbeWhileRecording ==
    /\ state = "RECORDING" => lastProbe' = lastProbe
    /\ (pc = "live_rec" /\ pc' = "sleep_rec") => tick'.query = "live"

C17_QueryFailureEndsRecording ==
    []C17_FailedQueryStops /\ [][C17_NoProbeWhileRecording]_vars

\* A network error of the query has sent the loop into stop_recording, which
\* has terminated the process that was running.
C17_Witness ==
    /\ pc = "clear"
    /\ stopRet = "loop"
    /\ tick.query = "neterr"
    /\ interrupts = 0
    /\ termSent[process]
    /\ waitOk[process]

\* C18: when record_stream has terminated no capture process is live.
C18_NoLiveAtTermination == pc \in Terminated => Live = {}

\* C19: between two consecutive launches of the capture process there is a
\* backoff sleep.
C19_SleepBetweenLaunches == gaps.sGap # "unslept"

====
